---- MODULE Spec2Model ----
(***************************************************************************)
(* A model of the Q-learning trading strategy (notebooks/strategy.py) and  *)
(* of the market simulator (notebooks/marketsim.py).                       *)
(*                                                                         *)
(* The specifications share the module's variables:                       *)
(*   SpecWalk   the day-by-day walk of add_evidence and test_policy        *)
(*   SpecSim    compute_portvals_single_symbol                             *)
(*   SpecThres  get_thresholds                                             *)
(*   SpecDisc   discretize                                                 *)
(*   SpecStates get_thresholds, then discretize on the table's rows        *)
(*   SpecConv   has_converged                                              *)
(*   SpecTrain  the epoch loop of add_evidence with its convergence check  *)
(*   SpecInst   construction of StrategyLearner instances                  *)
(* A specification leaves the variables of the others at their idle value. *)
(*                                                                         *)
(* Numbers: prices, share counts and money are integers; a ratio (a daily  *)
(* reward) is kept as a pair <<numerator, denominator>> and compared by    *)
(* cross multiplication.                                                   *)
(***************************************************************************)
EXTENDS Integers, Sequences, FiniteSets, TLC

VARIABLES
    \* ---- the walk (StrategyLearner.add_evidence / test_policy)
    method,        \* "add_evidence" or "test_policy"
    df_prices,     \* the symbol's price series, one price per row
    num_steps,     \* self.num_steps
    epochs,        \* self.epochs
    pc,            \* where the method is: "idle", "start", "walk", "done", "IndexError"
    epoch,         \* the epoch being run (1-based), 0 before the first
    day,           \* enumerate's counter: rows of the feature index already walked
    position,      \* the running position
    orders,        \* the orders recorded so far in this walk, one per date walked
    calls,         \* the q_learner.act calls of this walk: [reward, update, done, action]
    replays,       \* the number of q_learner.replay calls so far
    cum_returns,   \* the cumulative returns appended so far, one per finished epoch
    \* ---- the simulator (compute_portvals_single_symbol)
    sim_pc,        \* "idle", "start", "orders", "holdings", "value", "done"
    df_orders,     \* the order rows, each [date, shares]; sorted by date once started
    raw_prices,    \* what get_data returned for each day asked: a price or NaN
    start_val,     \* the starting cash
    commission,    \* the fixed fee of a transaction
    impact,        \* the price impact of a transaction
    sim_prices,    \* the filled price frame: date -> price of the symbol (cash is 1)
    df_trades,     \* date -> [sym, cash]: the day's change in shares and in cash
    order_i,       \* the order rows already processed
    df_holdings,   \* the holdings rows built so far, from the first date on
    portvals,      \* the portfolio value per date, from the first date on
    \* ---- get_thresholds
    th_pc,         \* "idle", "start", "done"
    df_features,   \* the feature table: a sequence of rows, a row one value per feature
    th_num_steps,  \* the num_steps argument
    thres,         \* how get_thresholds ends: [error, value], the value a row of
                   \* thresholds per feature
    \* ---- discretize
    disc_pc,       \* "idle", "start", "done"
    thresholds,    \* the threshold table: a row of num_steps thresholds per feature
    features,      \* the feature vector of one date
    non_neg_position, \* the position code, position + 1
    bins,          \* the bin index discretize took for each feature
    state,         \* how discretize ends: [error, value], the value the state
    \* ---- has_converged
    hc_pc,         \* "idle", "start", "done"
    hc_returns,    \* the cum_returns argument
    hc_patience,   \* the patience argument
    hc_result,     \* what has_converged returned
    \* ---- the training loop over many epochs
    profile,       \* how the epochs' cumulative returns develop in this run
    \* ---- construction of StrategyLearner instances
    learner_objs,  \* the QLearner objects alive: object -> training calls received
    instances      \* the StrategyLearner instances: [q_learner, explicit, trained]

walkVars == <<method, df_prices, num_steps, epochs, pc, epoch, day, position,
              orders, calls, replays, cum_returns>>

simVars == <<sim_pc, df_orders, raw_prices, start_val, commission, impact,
             sim_prices, df_trades, order_i, df_holdings, portvals>>

thresVars == <<th_pc, df_features, th_num_steps, thres>>

discVars == <<disc_pc, thresholds, features, non_neg_position, bins, state>>

convVars == <<hc_pc, hc_returns, hc_patience, hc_result>>

trainVars == <<profile>>

instVars == <<learner_objs, instances>>

vars == <<walkVars, simVars, thresVars, discVars, convVars, trainVars, instVars>>

(***************************************************************************)
(* Bounds of the model.                                                    *)
(***************************************************************************)
MaxFeatDays == 3     \* rows of the price series past the rolling window
PricePeriod == 3     \* a price series repeats a pattern of this length
MaxSteps == 3        \* num_steps is 1..MaxSteps
MaxEpochs == 2       \* epochs is 1..MaxEpochs
MaxDate == 3         \* the calendar days are 1..MaxDate
MaxOrders == 2       \* an order series has 1..MaxOrders rows
MaxReturns == 4      \* cumulative returns handed to has_converged
MaxPatience == 3     \* the patience handed to has_converged
MaxInstances == 3    \* StrategyLearner instances constructed
MaxTrainings == 2    \* add_evidence calls one QLearner object receives
MaxSamples == 3      \* a feature table has 1..MaxSamples rows

(***************************************************************************)
(* Program constants.                                                      *)
(***************************************************************************)
LONG == 1
CASH == 0
SHORT == -1
window_size == 10
NumFeatures == 3
Patience == 10
WarmUp == 20

Abs(x) == IF x < 0 THEN -x ELSE x

\* How a call ends: with a value, or with an exception raised.
Returns(v) == [error |-> "none", value |-> v]
Raises(e) == [error |-> e, value |-> <<>>]

\* Python 3's round(a / b) for a >= 0, b > 0: to the nearest integer, a tie
\* to the even one.
Round(a, b) ==
    LET q == a \div b
        r == a % b
    IN  IF 2 * r < b THEN q
        ELSE IF 2 * r > b THEN q + 1
        ELSE IF q % 2 = 0 THEN q ELSE q + 1

\* The i-th (1-based) element of a finite set of integers, ascending.
Nth(S, i) == CHOOSE t \in S : Cardinality({u \in S : u < t}) = i - 1

(***************************************************************************)
(* get_features: the rows of the price series that survive dropna.         *)
(***************************************************************************)
\* prices.rolling(window).mean() and .std() are NaN on the first window-1 rows.
RollingDefined(prices, t) == t >= window_size

\* get_momentum: price[t] / price[t - w] - 1, NaN while t - w is no row.
MomentumDefined(prices, t) == t - window_size >= 1

\* compute_bollinger_value: (price - mean) / (2 * std); 0.0 / 0.0 is NaN when
\* the window's prices are all equal.
BollingerDefined(prices, t) ==
    /\ RollingDefined(prices, t)
    /\ \E u \in (t - window_size + 1)..t : prices[u] # prices[t]

\* The index of df_features after dropna, as row numbers of the price series.
FeatureRows(prices) ==
    {t \in 1..Len(prices) : /\ RollingDefined(prices, t)
                            /\ MomentumDefined(prices, t)
                            /\ BollingerDefined(prices, t)}

(***************************************************************************)
(* get_thresholds: the rows of the sorted feature column it reads.         *)
(***************************************************************************)
\* A get_thresholds whose last threshold is the first row of the sorted
\* column, not the last.
ThresholdRow_LastIsFirst(n, steps, step) ==
    IF step < steps - 1 THEN (step + 1) * Round(n, steps) ELSE 0

\* The 0-based row that threshold `step` reads out of n sorted rows; -1 is
\* iloc[-1], the last row.
ThresholdRow(n, steps, step) ==
    IF step < steps - 1 THEN (step + 1) * Round(n, steps) ELSE -1

\* iloc[k] on n rows raises IndexError unless -n <= k < n.
IlocFails(n, k) == k >= n \/ k < -n

GetThresholdsFails(n, steps) ==
    \E step \in 0..(steps - 1) : IlocFails(n, ThresholdRow(n, steps, step))

(***************************************************************************)
(* get_position, get_daily_reward, has_converged.                          *)
(***************************************************************************)
\* A get_position without the guards on old_pos: the signal itself.
get_position_Unguarded(old_pos, signal) == signal

\* A get_position whose guards compare with <= and >=, not < and >.
get_position_LooseGuards(old_pos, signal) ==
    IF old_pos <= LONG /\ signal = LONG THEN LONG
    ELSE IF old_pos >= SHORT /\ signal = SHORT THEN SHORT
    ELSE CASH

\* A get_position that answers a repeated signal by closing the position.
get_position_RepeatCloses(old_pos, signal) ==
    IF old_pos # CASH /\ signal = old_pos THEN -old_pos
    ELSE IF old_pos < LONG /\ signal = LONG THEN LONG
    ELSE IF old_pos > SHORT /\ signal = SHORT THEN SHORT
    ELSE CASH

\* Lines 131-137.
get_position(old_pos, signal) ==
    IF old_pos < LONG /\ signal = LONG THEN LONG
    ELSE IF old_pos > SHORT /\ signal = SHORT THEN SHORT
    ELSE CASH

\* position * ((curr_price / prev_price) - 1), as <<numerator, denominator>>.
get_daily_reward(prev_price, curr_price, pos) ==
    <<pos * (curr_price - prev_price), prev_price>>

SeqMax(s) == CHOOSE m \in {s[i] : i \in 1..Len(s)} : \A i \in 1..Len(s) : s[i] <= m

\* A has_converged that waits for more than patience returns.
has_converged_StrictPatience(returns, patience) ==
    IF patience >= Len(returns) THEN FALSE
    ELSE LET n == Len(returns)
             latest == {returns[i] : i \in (n - patience + 1)..n}
             earlier == {returns[i] : i \in 1..(n - patience)}
             max_return == SeqMax(returns)
         IN  IF Cardinality(latest) = 1 THEN TRUE
             ELSE IF max_return \in latest
                  THEN max_return \in earlier
                  ELSE TRUE

\* A has_converged that takes a new best among the recent returns for
\* convergence.
has_converged_RecentBestConverges(returns, patience) ==
    IF patience > Len(returns) THEN FALSE
    ELSE LET n == Len(returns)
             latest == {returns[i] : i \in (n - patience + 1)..n}
             earlier == {returns[i] : i \in 1..(n - patience)}
             max_return == SeqMax(returns)
         IN  IF Cardinality(latest) = 1 THEN TRUE
             ELSE IF max_return \in latest
                  THEN max_return \notin earlier
                  ELSE TRUE

\* Lines 160-174.
has_converged(returns, patience) ==
    IF patience > Len(returns) THEN FALSE
    ELSE LET n == Len(returns)
             latest == {returns[i] : i \in (n - patience + 1)..n}
             earlier == {returns[i] : i \in 1..(n - patience)}
             max_return == SeqMax(returns)
         IN  IF Cardinality(latest) = 1 THEN TRUE
             ELSE IF max_return \in latest
                  THEN max_return \in earlier
                  ELSE TRUE

(***************************************************************************)
(* The walk.                                                               *)
(***************************************************************************)
PriceLevels == {1, 2}          \* the prices of a series
ReturnValues == {0, 1}         \* the cumulative return of an epoch

\* The price series of window_size + n rows that repeat a pattern.
PriceSeries ==
    {[t \in 1..(window_size + n) |-> pat[((t - 1) % PricePeriod) + 1]] :
        n \in 1..MaxFeatDays, pat \in [1..PricePeriod -> PriceLevels]}

IdleWalk ==
    /\ method = "none"
    /\ df_prices = <<>>
    /\ num_steps = 0
    /\ epochs = 0
    /\ pc = "idle"
    /\ epoch = 0
    /\ day = 0
    /\ position = CASH
    /\ orders = <<>>
    /\ calls = <<>>
    /\ replays = 0
    /\ cum_returns = <<>>

IdleSim ==
    /\ sim_pc = "idle"
    /\ df_orders = <<>>
    /\ raw_prices = <<>>
    /\ start_val = 0
    /\ commission = 0
    /\ impact = 0
    /\ sim_prices = <<>>
    /\ df_trades = <<>>
    /\ order_i = 0
    /\ df_holdings = <<>>
    /\ portvals = <<>>

IdleThres ==
    /\ th_pc = "idle"
    /\ df_features = <<>>
    /\ th_num_steps = 0
    /\ thres = Returns(<<>>)

IdleDisc ==
    /\ disc_pc = "idle"
    /\ thresholds = <<>>
    /\ features = <<>>
    /\ non_neg_position = 0
    /\ bins = <<>>
    /\ state = Returns(0)

IdleConv ==
    /\ hc_pc = "idle"
    /\ hc_returns = <<>>
    /\ hc_patience = 0
    /\ hc_result = FALSE

IdleTrain == profile = [kind |-> "none", at |-> 0]

IdleInst ==
    /\ learner_objs = <<>>
    /\ instances = <<>>

InitWalk ==
    /\ IdleConv
    /\ IdleTrain
    /\ IdleInst
    /\ IdleSim
    /\ IdleThres
    /\ IdleDisc
    /\ method \in {"add_evidence", "test_policy"}
    /\ df_prices \in PriceSeries
    /\ num_steps \in 1..MaxSteps
    /\ epochs \in 1..MaxEpochs
    /\ pc = "start"
    /\ epoch = 0
    /\ day = 0
    /\ position = CASH
    /\ orders = <<>>
    /\ calls = <<>>
    /\ replays = 0
    /\ cum_returns = <<>>

\* Lines 186-192 and 267-276: the features and the thresholds are computed
\* once; get_thresholds raises IndexError on some row counts.
Prepare ==
    /\ pc = "start"
    /\ IF GetThresholdsFails(Cardinality(FeatureRows(df_prices)), num_steps)
       THEN /\ pc' = "IndexError"
            /\ UNCHANGED epoch
       ELSE /\ pc' = "walk"
            /\ epoch' = 1
    /\ day' = 0
    /\ position' = CASH
    /\ orders' = <<>>
    /\ calls' = <<>>
    /\ UNCHANGED <<method, df_prices, num_steps, epochs, replays, cum_returns>>
    /\ UNCHANGED <<simVars, thresVars, discVars, convVars, trainVars, instVars>>

\* A walk that does not close the position on the last date.
NewPos_NoClose(is_last, pos, action) == get_position(pos, action - 1)

\* The order of one date: the last date closes the position.
NewPos(is_last, pos, action) ==
    IF is_last THEN -pos ELSE get_position(pos, action - 1)

\* The price add_evidence takes as prev_price on the date at counter d >= 1:
\* df_prices[symbol].iloc[day - 1].
PrevPrice(prices, d) == prices[(d - 1) + 1]

\* An act call of test_policy that updates on the dates after the first, as
\* the training walk does.
ActCall_TestUpdates(meth, is_first, is_last, reward, action) ==
    IF is_first
    THEN [reward |-> <<0, 1>>, update |-> FALSE, done |-> FALSE, action |-> action]
    ELSE [reward |-> reward, update |-> TRUE, done |-> is_last, action |-> action]

\* An act call that raises done on every date after the first.
ActCall_DoneEveryDate(meth, is_first, is_last, reward, action) ==
    IF meth = "test_policy" \/ is_first
    THEN [reward |-> <<0, 1>>, update |-> FALSE, done |-> FALSE, action |-> action]
    ELSE [reward |-> reward, update |-> TRUE, done |-> TRUE, action |-> action]

\* The q_learner.act call of one date, with the action it returned. Lines 208
\* and 282: act(state, 0.0, update=False), no done argument (done reads FALSE
\* here); line 216: act(state, reward, update=True, done=date == index[-1]).
ActCall(meth, is_first, is_last, reward, action) ==
    IF meth = "test_policy" \/ is_first
    THEN [reward |-> <<0, 1>>, update |-> FALSE, done |-> FALSE, action |-> action]
    ELSE [reward |-> reward, update |-> TRUE, done |-> is_last, action |-> action]

\* How often the agent has changed its value table: it does so when act is
\* called with the update flag set and when replay is called.
TableMutations(act_calls, replay_calls) ==
    Cardinality({i \in 1..Len(act_calls) : act_calls[i].update}) + replay_calls

\* One date of the walk; `action` is what q_learner.act returns. The state
\* handed to act is discretize's (SpecDisc); the agent may answer any action
\* to any state, so the walk does not depend on it.
WalkDay(action) ==
    /\ pc = "walk"
    /\ day < Cardinality(FeatureRows(df_prices))
    /\ LET rows == FeatureRows(df_prices)
           date == Nth(rows, day + 1)
           is_first == (date = Nth(rows, 1))
           is_last == (date = Nth(rows, Cardinality(rows)))
           reward == get_daily_reward(PrevPrice(df_prices, day),
                                      df_prices[date], position)
           call == ActCall(method, is_first, is_last, reward, action)
           new_pos == NewPos(is_last, position, action)
       IN  /\ calls' = Append(calls, call)
           /\ orders' = Append(orders, new_pos)
           /\ position' = position + new_pos
    /\ day' = day + 1
    /\ UNCHANGED <<method, df_prices, num_steps, epochs, pc, epoch, replays,
                   cum_returns>>
    /\ UNCHANGED <<simVars, thresVars, discVars, convVars, trainVars, instVars>>

\* test_policy, past the last date: the trades are built and returned.
FinishTest ==
    /\ pc = "walk"
    /\ method = "test_policy"
    /\ day = Cardinality(FeatureRows(df_prices))
    /\ pc' = "done"
    /\ UNCHANGED <<method, df_prices, num_steps, epochs, epoch, day, position,
                   orders, calls, replays, cum_returns>>
    /\ UNCHANGED <<simVars, thresVars, discVars, convVars, trainVars, instVars>>

\* An epoch end that checks convergence without waiting for the warm-up.
FinishEpoch_NoWarmUp(cum_return) ==
    /\ pc = "walk"
    /\ method = "add_evidence"
    /\ day = Cardinality(FeatureRows(df_prices))
    /\ replays' = replays + 1
    /\ cum_returns' = Append(cum_returns, cum_return)
    /\ IF has_converged(cum_returns', Patience) \/ epoch = epochs
       THEN /\ pc' = "done"
            /\ UNCHANGED <<epoch, day, position, orders, calls>>
       ELSE /\ epoch' = epoch + 1
            /\ day' = 0
            /\ position' = CASH
            /\ orders' = <<>>
            /\ calls' = <<>>
            /\ pc' = "walk"
    /\ UNCHANGED <<method, df_prices, num_steps, epochs>>
    /\ UNCHANGED <<simVars, thresVars, discVars, convVars, trainVars, instVars>>

\* add_evidence, past the last date of an epoch: replay, the epoch's
\* cumulative return (computed by the simulator and get_portfolio_stats, here
\* any value of ReturnValues), the convergence check, and the next epoch's
\* reset.
FinishEpoch(cum_return) ==
    /\ pc = "walk"
    /\ method = "add_evidence"
    /\ day = Cardinality(FeatureRows(df_prices))
    /\ replays' = replays + 1
    /\ cum_returns' = Append(cum_returns, cum_return)
    /\ IF (epoch > WarmUp /\ has_converged(cum_returns', Patience))
          \/ epoch = epochs
       THEN /\ pc' = "done"
            /\ UNCHANGED <<epoch, day, position, orders, calls>>
       ELSE /\ epoch' = epoch + 1
            /\ day' = 0
            /\ position' = CASH
            /\ orders' = <<>>
            /\ calls' = <<>>
            /\ pc' = "walk"
    /\ UNCHANGED <<method, df_prices, num_steps, epochs>>
    /\ UNCHANGED <<simVars, thresVars, discVars, convVars, trainVars, instVars>>

NextWalk ==
    \/ Prepare
    \/ \E action \in 0..2 : WalkDay(action)
    \/ FinishTest
    \/ \E cum_return \in ReturnValues : FinishEpoch(cum_return)

SpecWalk == InitWalk /\ [][NextWalk]_vars

(***************************************************************************)
(* The training loop over many epochs: add_evidence on a short period,     *)
(* with the epochs' cumulative returns following a profile.                *)
(***************************************************************************)
TrainEpochs == {5, 21, 24, 30}     \* the epoch budgets tried
PlateauStarts == {0, 8, 14, 18, 40} \* where a rising return stops rising
PeakEpochs == {5, 15}              \* where a lone best return occurs

\* plateau: the return rises by one per epoch up to epoch `at` and stays.
\* peak: the return alternates 0, 1 but is 2 at epoch `at`.
Profiles ==
    {[kind |-> "plateau", at |-> k] : k \in PlateauStarts}
        \cup {[kind |-> "peak", at |-> k] : k \in PeakEpochs}

ProfileReturn(prof, e) ==
    IF prof.kind = "plateau" THEN (IF e < prof.at THEN e ELSE prof.at)
    ELSE IF e = prof.at THEN 2 ELSE e % 2

InitTrain ==
    /\ IdleSim
    /\ IdleThres
    /\ IdleDisc
    /\ IdleConv
    /\ IdleInst
    /\ profile \in Profiles
    /\ method = "add_evidence"
    /\ df_prices \in {p \in PriceSeries : Len(p) = window_size + 1}
    /\ num_steps = 1
    /\ epochs \in TrainEpochs
    /\ pc = "start"
    /\ epoch = 0
    /\ day = 0
    /\ position = CASH
    /\ orders = <<>>
    /\ calls = <<>>
    /\ replays = 0
    /\ cum_returns = <<>>

NextTrain ==
    \/ Prepare
    \/ \E action \in 0..2 : WalkDay(action)
    \/ FinishEpoch(ProfileReturn(profile, epoch))

SpecTrain == InitTrain /\ [][NextTrain]_vars

(***************************************************************************)
(* The simulator: compute_portvals_single_symbol.                          *)
(***************************************************************************)
NaN == 0                       \* a missing price; real prices are >= 1
PriceValues == {NaN, 1, 2}     \* what get_data may return for a day
ShareValues == {-1, 0, 1}      \* the signed quantity of an order row
FeeValues == {0, 1}            \* commission and impact
StartVals == {10}

SetMin(S) == CHOOSE m \in S : \A x \in S : m <= x
SetMax(S) == CHOOSE m \in S : \A x \in S : x <= m

\* The orderings sort_index may leave the rows in: ascending by date, rows of
\* the same date in any order.
SortedByDate(rows) ==
    LET n == Len(rows)
        perms == {f \in [1..n -> 1..n] : \A i, j \in 1..n : i # j => f[i] # f[j]}
    IN  {[i \in 1..n |-> rows[f[i]]] : f \in
            {g \in perms : \A i \in 1..(n - 1) :
                               rows[g[i]].date <= rows[g[i + 1]].date}}

\* fillna(ffill), fillna(bfill), fillna(1.0) on the rows lo..hi.
Filled(raw, lo, hi) ==
    [t \in lo..hi |->
        LET before == {u \in lo..t : raw[u] # NaN}
            after == {u \in t..hi : raw[u] # NaN}
        IN  IF before # {} THEN raw[SetMax(before)]
            ELSE IF after # {} THEN raw[SetMin(after)]
            ELSE 1]

\* An order that is charged its cost also when its quantity is zero.
OrderDelta_ZeroCharged(shares, price, fee, imp) ==
    [sym |-> shares,
     cash |-> 0 - price * shares - (fee + imp * price * Abs(shares))]

\* An order whose cost is credited, not debited, on a sale.
OrderDelta_SellCredited(shares, price, fee, imp) ==
    IF shares > 0
    THEN [sym |-> shares,
          cash |-> 0 - price * shares - (fee + imp * price * Abs(shares))]
    ELSE IF shares < 0
    THEN [sym |-> shares,
          cash |-> 0 - price * shares + (fee + imp * price * Abs(shares))]
    ELSE [sym |-> 0, cash |-> 0]

\* Lines 55-76: what one order row adds to its date's row of df_trades.
OrderDelta(shares, price, fee, imp) ==
    LET traded_share_value == price * shares
        transaction_cost == fee + imp * price * Abs(shares)
    IN  IF shares > 0
        THEN [sym |-> shares,
              cash |-> 0 - traded_share_value - transaction_cost]
        ELSE IF shares < 0
        THEN [sym |-> shares,
              cash |-> 0 - traded_share_value - transaction_cost]
        ELSE [sym |-> 0, cash |-> 0]

\* A row of df_trades that the order's effect overwrites.
TradesAfter_Overwrite(trades, date, delta) ==
    IF delta.sym = 0 THEN trades
    ELSE [trades EXCEPT ![date] = delta]

\* A row of df_trades that takes the first order of its date only.
TradesAfter_KeepFirst(trades, date, delta) ==
    IF trades[date].sym # 0 \/ trades[date].cash # 0 THEN trades
    ELSE [trades EXCEPT ![date] = delta]

\* df_trades.loc[index] = df_trades.loc[index] + the order's effect.
TradesAfter(trades, date, delta) ==
    [trades EXCEPT ![date] = [sym |-> @.sym + delta.sym,
                              cash |-> @.cash + delta.cash]]

\* Holdings rows that are the day's trades alone, not a running sum.
HoldingsRow_NotCumulative(rows, trade, start) ==
    [sym |-> trade.sym, cash |-> trade.cash + start]

\* Lines 84-90: the holdings row that follows `rows`.
HoldingsRow(rows, trade, start) ==
    IF Len(rows) = 0
    THEN [sym |-> trade.sym, cash |-> trade.cash + start]
    ELSE [sym |-> rows[Len(rows)].sym + trade.sym,
          cash |-> rows[Len(rows)].cash + trade.cash]

\* Lines 94-97: df_prices * df_holdings, summed over the columns (cash is 1.0).
PortVal(price, holding) == price * holding.sym + 1 * holding.cash

OrderRows ==
    UNION {[1..n -> [date : 1..MaxDate, shares : ShareValues]] : n \in 1..MaxOrders}

InitSim ==
    /\ IdleConv
    /\ IdleTrain
    /\ IdleInst
    /\ IdleWalk
    /\ IdleThres
    /\ IdleDisc
    /\ sim_pc = "start"
    /\ df_orders \in OrderRows
    /\ raw_prices = <<>>
    /\ start_val \in StartVals
    /\ commission \in FeeValues
    /\ impact \in FeeValues
    /\ sim_prices = <<>>
    /\ df_trades = <<>>
    /\ order_i = 0
    /\ df_holdings = <<>>
    /\ portvals = <<>>

StartDate == SetMin({df_orders[i].date : i \in 1..Len(df_orders)})
EndDate == SetMax({df_orders[i].date : i \in 1..Len(df_orders)})

\* Lines 33-53: sort the orders, fetch the prices of every day of
\* [start_date, end_date] (get_data returns any price or NaN for a day) and
\* fill them, start df_trades at zero.
SimPrepare ==
    /\ sim_pc = "start"
    /\ df_orders' \in SortedByDate(df_orders)
    /\ raw_prices' \in [StartDate..EndDate -> PriceValues]
    /\ sim_prices' = Filled(raw_prices', StartDate, EndDate)
    /\ df_trades' = [t \in StartDate..EndDate |-> [sym |-> 0, cash |-> 0]]
    /\ sim_pc' = "orders"
    /\ UNCHANGED <<start_val, commission, impact, order_i, df_holdings,
                   portvals>>
    /\ UNCHANGED <<walkVars, thresVars, discVars, convVars, trainVars, instVars>>

\* Lines 54-76: one turn of the loop over df_orders.iterrows().
SimOrder ==
    /\ sim_pc = "orders"
    /\ order_i < Len(df_orders)
    /\ LET row == df_orders[order_i + 1]
       IN  df_trades' = TradesAfter(df_trades, row.date,
                            OrderDelta(row.shares, sim_prices[row.date],
                                       commission, impact))
    /\ order_i' = order_i + 1
    /\ UNCHANGED <<sim_pc, df_orders, raw_prices, start_val, commission, impact,
                   sim_prices, df_holdings, portvals>>
    /\ UNCHANGED <<walkVars, thresVars, discVars, convVars, trainVars, instVars>>

\* The loop over the orders is over.
SimOrdersDone ==
    /\ sim_pc = "orders"
    /\ order_i = Len(df_orders)
    /\ sim_pc' = "holdings"
    /\ UNCHANGED <<df_orders, raw_prices, start_val, commission, impact,
                   sim_prices, df_trades, order_i, df_holdings, portvals>>
    /\ UNCHANGED <<walkVars, thresVars, discVars, convVars, trainVars, instVars>>

\* Lines 81-91: one turn of the loop over the rows of df_holdings.
SimHoldingsRow ==
    /\ sim_pc = "holdings"
    /\ Len(df_holdings) < EndDate - StartDate + 1
    /\ df_holdings' = Append(df_holdings,
                          HoldingsRow(df_holdings,
                                      df_trades[StartDate + Len(df_holdings)],
                                      start_val))
    /\ UNCHANGED <<sim_pc, df_orders, raw_prices, start_val, commission, impact,
                   sim_prices, df_trades, order_i, portvals>>
    /\ UNCHANGED <<walkVars, thresVars, discVars, convVars, trainVars, instVars>>

\* Lines 94-98: the value of every row, returned as portvals.
SimValue ==
    /\ sim_pc = "holdings"
    /\ Len(df_holdings) = EndDate - StartDate + 1
    /\ portvals' = [r \in 1..Len(df_holdings) |->
                       PortVal(sim_prices[StartDate + r - 1], df_holdings[r])]
    /\ sim_pc' = "done"
    /\ UNCHANGED <<df_orders, raw_prices, start_val, commission, impact,
                   sim_prices, df_trades, order_i, df_holdings>>
    /\ UNCHANGED <<walkVars, thresVars, discVars, convVars, trainVars, instVars>>

NextSim ==
    \/ SimPrepare
    \/ SimOrder
    \/ SimOrdersDone
    \/ SimHoldingsRow
    \/ SimValue

SpecSim == InitSim /\ [][NextSim]_vars

(***************************************************************************)
(* get_thresholds.                                                         *)
(***************************************************************************)
FeatureValues == {1, 2}        \* what a feature of a training row may be
ThresholdValues == {1, 2}      \* what a threshold of a given table may be
ValueChoices == {1, 2, 3}      \* what a feature handed to discretize may be

\* The k-th smallest (1-based) of the values of a sequence: row k of the
\* column once sort_values has sorted it.
KthSmallest(vals, k) ==
    CHOOSE v \in {vals[j] : j \in 1..Len(vals)} :
        /\ Cardinality({j \in 1..Len(vals) : vals[j] < v}) < k
        /\ k <= Cardinality({j \in 1..Len(vals) : vals[j] <= v})

\* sorted.iloc[k] on the sorted column: k is 0-based, a negative k counts
\* from the end.
Iloc(vals, k) ==
    IF k >= 0 THEN KthSmallest(vals, k + 1)
    ELSE KthSmallest(vals, Len(vals) + k + 1)

Column(table, i) == [r \in 1..Len(table) |-> table[r][i]]

\* Lines 89-100.
get_thresholds(table, steps) ==
    IF GetThresholdsFails(Len(table), steps) THEN Raises("IndexError")
    ELSE Returns([i \in 1..NumFeatures |->
            [s \in 1..steps |->
                Iloc(Column(table, i), ThresholdRow(Len(table), steps, s - 1))]])

FeatureTables ==
    UNION {[1..n -> [1..NumFeatures -> FeatureValues]] : n \in 1..MaxSamples}

InitThres ==
    /\ IdleConv
    /\ IdleTrain
    /\ IdleInst
    /\ IdleWalk
    /\ IdleSim
    /\ IdleDisc
    /\ th_pc = "start"
    /\ df_features \in FeatureTables
    /\ th_num_steps \in 1..MaxSteps
    /\ thres = Returns(<<>>)

GetThresholds ==
    /\ th_pc = "start"
    /\ thres' = get_thresholds(df_features, th_num_steps)
    /\ th_pc' = "done"
    /\ UNCHANGED <<df_features, th_num_steps>>
    /\ UNCHANGED <<walkVars, simVars, discVars, convVars, trainVars, instVars>>

NextThres == GetThresholds

SpecThres == InitThres /\ [][NextThres]_vars

(***************************************************************************)
(* discretize.                                                             *)
(***************************************************************************)
RECURSIVE Pow(_, _)
Pow(b, e) == IF e = 0 THEN 1 ELSE b * Pow(b, e - 1)

\* thresholds[i][thresholds[i] >= value][0]: the first threshold of row i
\* that is >= value; there is none when value exceeds them all.
HasThreshold(row, value) == \E c \in 1..Len(row) : row[c] >= value

FirstThreshold(row, value) ==
    row[SetMin({c \in 1..Len(row) : row[c] >= value})]

\* np.where(thresholds == thres)[1][0]: the column (0-based) of the first
\* cell equal to thres, the table read row by row.
WhereColumn(table, th) ==
    LET hits == {rc \in (1..Len(table)) \X (1..Len(table[1])) :
                    table[rc[1]][rc[2]] = th}
        first == CHOOSE rc \in hits :
                    \A o \in hits : \/ rc[1] < o[1]
                                    \/ (rc[1] = o[1] /\ rc[2] <= o[2])
    IN  first[2] - 1

\* Line 118 raises IndexError when a feature exceeds its whole row.
DiscretizeFails(table, feats) ==
    \E i \in 1..Len(feats) : ~HasThreshold(table[i], feats[i])

\* Lines 117-119: thres_i of every feature.
BinIndexes(table, feats) ==
    [i \in 1..Len(feats) |->
        WhereColumn(table, FirstThreshold(table[i], feats[i]))]

RECURSIVE WeightedSum(_, _, _)
\* bin[1] * steps^0 + ... + bin[k] * steps^(k-1)
WeightedSum(b, steps, k) ==
    IF k = 0 THEN 0
    ELSE WeightedSum(b, steps, k - 1) + b[k] * Pow(steps, k - 1)

\* A discretize whose position digit weighs one power of num_steps too little.
discretize_LowPositionWeight(feats, pos_code, table, steps) ==
    IF DiscretizeFails(table, feats) THEN Raises("IndexError")
    ELSE Returns(pos_code * Pow(steps, Len(feats) - 1)
                 + WeightedSum(BinIndexes(table, feats), steps, Len(feats)))

\* Lines 116-121.
discretize(feats, pos_code, table, steps) ==
    IF DiscretizeFails(table, feats) THEN Raises("IndexError")
    ELSE Returns(pos_code * Pow(steps, Len(feats))
                 + WeightedSum(BinIndexes(table, feats), steps, Len(feats)))

\* The rows of `steps` thresholds sorted ascending.
SortedRows(steps) ==
    {r \in [1..steps -> ThresholdValues] :
        \A c \in 1..(steps - 1) : r[c] <= r[c + 1]}

ThresholdTables ==
    UNION {[1..NumFeatures -> SortedRows(steps)] : steps \in 1..MaxSteps}

InitDisc ==
    /\ IdleConv
    /\ IdleTrain
    /\ IdleInst
    /\ IdleWalk
    /\ IdleSim
    /\ IdleThres
    /\ disc_pc = "start"
    /\ thresholds \in ThresholdTables
    /\ features \in [1..NumFeatures -> ValueChoices]
    /\ non_neg_position \in 0..2
    /\ bins = <<>>
    /\ state = Returns(0)

Discretize ==
    /\ disc_pc = "start"
    /\ bins' = IF DiscretizeFails(thresholds, features) THEN <<>>
               ELSE BinIndexes(thresholds, features)
    /\ state' = discretize(features, non_neg_position, thresholds,
                           Len(thresholds[1]))
    /\ disc_pc' = "done"
    /\ UNCHANGED <<thresholds, features, non_neg_position>>
    /\ UNCHANGED <<walkVars, simVars, thresVars, convVars, trainVars, instVars>>

NextDisc == Discretize

SpecDisc == InitDisc /\ [][NextDisc]_vars

(***************************************************************************)
(* The states of a walk: get_thresholds on the feature table, then         *)
(* discretize on its rows, as add_evidence and test_policy do.             *)
(***************************************************************************)
InitStates ==
    /\ IdleWalk
    /\ IdleSim
    /\ IdleDisc
    /\ IdleConv
    /\ IdleTrain
    /\ IdleInst
    /\ th_pc = "start"
    /\ df_features \in FeatureTables
    /\ th_num_steps \in 1..MaxSteps
    /\ thres = Returns(<<>>)

\* Lines 200-203 and 278-280: the dates are walked in order and each is
\* discretized, discretize(df_features.loc[date], position + 1, thresholds),
\* on a row of the table the thresholds were computed from. The position
\* entering the first date is CASH; entering a later date it is whatever the
\* agent's earlier actions made it: SHORT, CASH or LONG.
LoopDiscretize(pos) ==
    /\ th_pc = "done"
    /\ thres.error = "none"
    /\ day < Len(df_features)
    /\ day = 0 => pos = CASH
    /\ position' = pos
    /\ thresholds' = thres.value
    /\ features' = df_features[day + 1]
    /\ non_neg_position' = pos + 1
    /\ bins' = IF DiscretizeFails(thresholds', features') THEN <<>>
               ELSE BinIndexes(thresholds', features')
    /\ state' = discretize(features', non_neg_position', thresholds', th_num_steps)
    /\ disc_pc' = "done"
    /\ day' = day + 1
    /\ UNCHANGED <<method, df_prices, num_steps, epochs, pc, epoch, orders,
                   calls, replays, cum_returns>>
    /\ UNCHANGED thresVars
    /\ UNCHANGED <<simVars, convVars, trainVars, instVars>>

NextStates ==
    \/ GetThresholds
    \/ \E pos \in {SHORT, CASH, LONG} : LoopDiscretize(pos)

SpecStates == InitStates /\ [][NextStates]_vars

(***************************************************************************)
(* Construction of StrategyLearner instances and the learner they hold.    *)
(***************************************************************************)
\* The QLearner object of the default argument `learner=ql.QLearner(...)`:
\* the expression is evaluated once, when the def statement of __init__ runs.
DefaultLearner == 1

InitInst ==
    /\ IdleWalk
    /\ IdleSim
    /\ IdleThres
    /\ IdleDisc
    /\ IdleConv
    /\ IdleTrain
    /\ learner_objs = <<0>>
    /\ instances = <<>>

\* StrategyLearner(): self.q_learner = learner, the default argument.
Construct ==
    /\ Len(instances) < MaxInstances
    /\ instances' = Append(instances, [q_learner |-> DefaultLearner,
                                       explicit |-> FALSE, trained |-> 0])
    /\ UNCHANGED learner_objs
    /\ UNCHANGED <<walkVars, simVars, thresVars, discVars, convVars, trainVars>>

\* StrategyLearner(learner=ql.QLearner(...)): the caller's new object.
ConstructWith ==
    /\ Len(instances) < MaxInstances
    /\ learner_objs' = Append(learner_objs, 0)
    /\ instances' = Append(instances, [q_learner |-> Len(learner_objs) + 1,
                                       explicit |-> TRUE, trained |-> 0])
    /\ UNCHANGED <<walkVars, simVars, thresVars, discVars, convVars, trainVars>>

\* add_evidence on instance i: its act(update=True) and replay calls go to
\* the object self.q_learner names.
AddEvidence(i) ==
    /\ i \in 1..Len(instances)
    /\ learner_objs[instances[i].q_learner] < MaxTrainings
    /\ learner_objs' = [learner_objs EXCEPT ![instances[i].q_learner] = @ + 1]
    /\ instances' = [instances EXCEPT ![i].trained = @ + 1]
    /\ UNCHANGED <<walkVars, simVars, thresVars, discVars, convVars, trainVars>>

NextInst ==
    \/ Construct
    \/ ConstructWith
    \/ \E i \in 1..MaxInstances : AddEvidence(i)

SpecInst == InitInst /\ [][NextInst]_vars

(***************************************************************************)
(* has_converged.                                                          *)
(***************************************************************************)
ConvReturns == {0, 1, 2}       \* what a cumulative return of the list may be

ReturnLists == UNION {[1..n -> ConvReturns] : n \in 0..MaxReturns}

InitConv ==
    /\ IdleWalk
    /\ IdleSim
    /\ IdleThres
    /\ IdleDisc
    /\ IdleTrain
    /\ IdleInst
    /\ hc_pc = "start"
    /\ hc_returns \in ReturnLists
    /\ hc_patience \in 1..MaxPatience
    /\ hc_result = FALSE

HasConverged ==
    /\ hc_pc = "start"
    /\ hc_result' = has_converged(hc_returns, hc_patience)
    /\ hc_pc' = "done"
    /\ UNCHANGED <<hc_returns, hc_patience>>
    /\ UNCHANGED <<walkVars, simVars, thresVars, discVars, trainVars, instVars>>

NextConv == HasConverged

SpecConv == InitConv /\ [][NextConv]_vars

(***************************************************************************)
(* Claims about the walk.                                                  *)
(***************************************************************************)
RECURSIVE SumTo(_, _)
\* s[1] + ... + s[k]
SumTo(s, k) == IF k = 0 THEN 0 ELSE s[k] + SumTo(s, k - 1)

NumDates == Cardinality(FeatureRows(df_prices))

\* C1: in add_evidence and test_policy the running position after each day's
\* update is always SHORT, CASH or LONG; it never reaches +2 or -2.
C1_PositionInRange ==
    /\ position \in {SHORT, CASH, LONG}
    /\ \A i \in 0..Len(orders) : SumTo(orders, i) \in {SHORT, CASH, LONG}

\* A long position that met a second buy signal on a date that is not the last.
C1_Witness ==
    /\ Len(orders) >= 2
    /\ Len(orders) < NumDates
    /\ SumTo(orders, Len(orders) - 1) = LONG
    /\ calls[Len(calls)].action = 2
    /\ position = LONG

\* C2: once the last date of a period has been walked, the order recorded on
\* it is minus the position held entering it, the position is 0 and the
\* period's orders sum to 0.
C2_EndsFlat ==
    (pc \in {"walk", "done"} /\ NumDates >= 1 /\ day = NumDates) =>
        /\ Len(orders) = NumDates
        /\ orders[NumDates] = -SumTo(orders, NumDates - 1)
        /\ position = CASH
        /\ SumTo(orders, NumDates) = 0

\* A finished period whose last order closed an open position.
C2_Witness ==
    /\ pc = "done"
    /\ NumDates >= 2
    /\ day = NumDates
    /\ orders[NumDates] # 0

\* The transition table of the position state machine, as the claim reads it.
TablePosition(old_pos, signal) ==
    IF old_pos # LONG /\ signal = LONG THEN LONG
    ELSE IF old_pos # SHORT /\ signal = SHORT THEN SHORT
    ELSE CASH

\* C3: on every date that is not the last, the position held after the date
\* is the one the transition table gives for the old position and the signal
\* (signal = action - 1).
C3_FollowsTable ==
    \A i \in 1..Len(orders) :
        i < NumDates =>
            SumTo(orders, i) = TablePosition(SumTo(orders, i - 1),
                                             calls[i].action - 1)

\* C3 (amended): on every date that is not the last, the order recorded for
\* the date is the one the transition table gives for the old position and
\* the signal, and the position held after the date is the old position plus
\* that order.
C3_OrderFollowsTable ==
    /\ position = SumTo(orders, Len(orders))
    /\ \A i \in 1..Len(orders) :
          i < NumDates =>
              orders[i] = TablePosition(SumTo(orders, i - 1), calls[i].action - 1)

\* A short position met a buy signal on a date that is not the last.
C3_Witness ==
    \E i \in 1..Len(orders) :
        /\ i < NumDates
        /\ SumTo(orders, i - 1) = SHORT
        /\ calls[i].action - 1 = LONG

\* C4: in add_evidence, on every date after the first, the reward passed to
\* the agent is position * (price[t] / price[t-1] - 1), with price[t-1] the
\* price on the row just before date t in the price series.
C4_RewardIsDailyReturn ==
    method = "add_evidence" =>
        \A i \in 2..Len(calls) :
            LET t == Nth(FeatureRows(df_prices), i)
                r == calls[i].reward
            IN  r[1] * df_prices[t - 1] =
                    SumTo(orders, i - 1) * (df_prices[t] - df_prices[t - 1]) * r[2]

(***************************************************************************)
(* Claims about the simulator.                                             *)
(***************************************************************************)
\* The cash effect the claims give an order of n shares at price p.
CashEffect(n, p) ==
    IF n = 0 THEN 0 ELSE 0 - (n * p + commission + impact * p * Abs(n))

RECURSIVE SharesUpTo(_, _, _)
\* The summed quantities of the first k order rows dated within `dates`.
SharesUpTo(rows, k, dates) ==
    IF k = 0 THEN 0
    ELSE SharesUpTo(rows, k - 1, dates)
         + (IF rows[k].date \in dates THEN rows[k].shares ELSE 0)

RECURSIVE CashUpTo(_, _, _)
\* The summed cash effects of the first k order rows dated within `dates`.
CashUpTo(rows, k, dates) ==
    IF k = 0 THEN 0
    ELSE CashUpTo(rows, k - 1, dates)
         + (IF rows[k].date \in dates
            THEN CashEffect(rows[k].shares, sim_prices[rows[k].date])
            ELSE 0)

\* C5: every order of non-zero quantity n executed at price p changes its
\* date's cash by exactly -(n*p + commission + impact*p*|n|) and its date's
\* share count by exactly +n, for buys and sells alike.
C5_OrderEffect ==
    [][(sim_pc = "orders" /\ order_i' = order_i + 1) =>
         LET row == df_orders[order_i + 1]
             n == row.shares
             p == sim_prices[row.date]
         IN  n # 0 =>
               /\ df_trades'[row.date].cash - df_trades[row.date].cash
                    = 0 - (n * p + commission + impact * p * Abs(n))
               /\ df_trades'[row.date].sym - df_trades[row.date].sym = n
               /\ \A t \in DOMAIN df_trades :
                      t # row.date => df_trades'[t] = df_trades[t]]_vars

\* A sale has just been processed, with a commission and an impact.
C5_Witness ==
    /\ sim_pc = "orders"
    /\ order_i >= 1
    /\ df_orders[order_i].shares < 0
    /\ commission > 0
    /\ impact > 0

\* C6: entries of the same date accumulate: after any number of processed
\* rows, a date's share delta is the sum of its processed entries' quantities
\* and its cash delta the sum of their individual cash effects.
C6_SameDateAccumulates ==
    sim_pc \in {"orders", "holdings", "done"} =>
        \A t \in DOMAIN df_trades :
            /\ df_trades[t].sym = SharesUpTo(df_orders, order_i, {t})
            /\ df_trades[t].cash = CashUpTo(df_orders, order_i, {t})

\* Two non-zero entries of one date have both been processed, with a
\* commission.
C6_Witness ==
    /\ sim_pc = "holdings"
    /\ commission > 0
    /\ \E i, j \in 1..Len(df_orders) :
          /\ i # j
          /\ df_orders[i].date = df_orders[j].date
          /\ df_orders[i].shares # 0
          /\ df_orders[j].shares # 0

\* C7: every holdings row is the running sum of the trades (shares of all
\* orders dated <= t; start_val plus their cash effects), every portfolio
\* value is shares * price + cash, and with no commission and no impact a buy
\* of n on the first day and a sale of n on the last give
\* start_val + n * (price[d] - price[first day]) on every day d.
C7_HoldingsAreRunningSums ==
    /\ sim_pc \in {"holdings", "done"} =>
         \A r \in 1..Len(df_holdings) :
            LET t == StartDate + r - 1
            IN  /\ df_holdings[r].sym =
                      SharesUpTo(df_orders, Len(df_orders), StartDate..t)
                /\ df_holdings[r].cash = start_val +
                      CashUpTo(df_orders, Len(df_orders), StartDate..t)
    /\ sim_pc = "done" =>
         /\ Len(portvals) = EndDate - StartDate + 1
         /\ \A r \in 1..Len(portvals) :
              portvals[r] = df_holdings[r].sym * sim_prices[StartDate + r - 1]
                            + df_holdings[r].cash
         /\ (/\ commission = 0
             /\ impact = 0
             /\ Len(df_orders) = 2
             /\ df_orders[1].date < df_orders[2].date
             /\ df_orders[1].shares > 0
             /\ df_orders[2].shares = 0 - df_orders[1].shares)
            => \A r \in 1..Len(portvals) :
                  portvals[r] = start_val + df_orders[1].shares *
                      (sim_prices[StartDate + r - 1] - sim_prices[StartDate])

\* A finished run of a buy on day 1 and a sale on day 3, free of cost, over
\* prices that move.
C7_Witness ==
    /\ sim_pc = "done"
    /\ commission = 0
    /\ impact = 0
    /\ Len(df_orders) = 2
    /\ df_orders[1].date + 2 = df_orders[2].date
    /\ df_orders[1].shares > 0
    /\ df_orders[2].shares = 0 - df_orders[1].shares
    /\ portvals[2] # start_val

\* C8: when every order's quantity is zero, the portfolio value is start_val
\* on every day, whatever the commission, the impact and the prices.
C8_ZeroOrdersCostNothing ==
    (sim_pc = "done" /\ \A i \in 1..Len(df_orders) : df_orders[i].shares = 0) =>
        \A r \in 1..Len(portvals) : portvals[r] = start_val

\* A finished run of zero-quantity orders over several days, with a
\* commission and an impact.
C8_Witness ==
    /\ sim_pc = "done"
    /\ \A i \in 1..Len(df_orders) : df_orders[i].shares = 0
    /\ commission > 0
    /\ impact > 0
    /\ Len(portvals) >= 2

(***************************************************************************)
(* Claims about get_thresholds and discretize.                             *)
(***************************************************************************)
\* C9: for every non-empty feature table and every num_steps >= 1,
\* get_thresholds completes and returns exactly num_steps thresholds per
\* feature, in non-decreasing order, the last one the feature's maximum.
C9_ThresholdsComplete ==
    th_pc = "done" =>
        /\ thres.error = "none"
        /\ Len(thres.value) = NumFeatures
        /\ \A i \in 1..NumFeatures :
              LET row == thres.value[i]
              IN  /\ Len(row) = th_num_steps
                  /\ \A c \in 1..(th_num_steps - 1) : row[c] <= row[c + 1]
                  /\ \A r \in 1..Len(df_features) :
                        df_features[r][i] <= row[th_num_steps]
                  /\ \E r \in 1..Len(df_features) :
                        df_features[r][i] = row[th_num_steps]

\* C10: the bin index discretize uses for a feature is the index, within the
\* feature's own threshold row, of the first threshold >= the feature's value.
C10_BinFromOwnRow ==
    (disc_pc = "done" /\ state.error = "none") =>
        \A i \in 1..NumFeatures :
            bins[i] = SetMin({c \in 1..Len(thresholds[i]) :
                                 thresholds[i][c] >= features[i]}) - 1

\* C11: discretize returns position_code * num_steps^k plus the sum of
\* bin_i * num_steps^i, every bin_i in [0, num_steps); the state lies in
\* [0, 3 * num_steps^k) and decoding it gives back the position code and
\* every bin, so two different tuples never share a state.
C11_StateDecodes ==
    (disc_pc = "done" /\ state.error = "none") =>
        LET steps == Len(thresholds[1])
            k == NumFeatures
            v == state.value
        IN  /\ non_neg_position \in 0..2
            /\ \A i \in 1..k : bins[i] \in 0..(steps - 1)
            /\ v \in 0..(3 * Pow(steps, k) - 1)
            /\ v \div Pow(steps, k) = non_neg_position
            /\ \A i \in 1..k : (v \div Pow(steps, i - 1)) % steps = bins[i]

\* A state built with the top position code and bins that are not all 0.
C11_Witness ==
    /\ disc_pc = "done"
    /\ state.error = "none"
    /\ Len(thresholds[1]) >= 2
    /\ non_neg_position = 2
    /\ \E i \in 1..NumFeatures : bins[i] > 0

\* C12: a feature value greater than every threshold of its feature is put
\* into the top bin (index num_steps - 1) and a state is returned; the call
\* does not fail.
C12_ClampedToTopBin ==
    (disc_pc = "done" /\ DiscretizeFails(thresholds, features)) =>
        /\ state.error = "none"
        /\ \A i \in 1..NumFeatures :
              ~HasThreshold(thresholds[i], features[i]) =>
                  bins[i] = Len(thresholds[i]) - 1


(***************************************************************************)
(* Claims about has_converged.                                             *)
(***************************************************************************)
\* The last patience returns of the list, and the returns before them.
LatestReturns == {hc_returns[i] : i \in (Len(hc_returns) - hc_patience + 1)..Len(hc_returns)}
EarlierReturns == {hc_returns[i] : i \in 1..(Len(hc_returns) - hc_patience)}

\* C13: has_converged returns False whenever the list is shorter than
\* patience, and True whenever the list has at least patience returns and
\* the last patience of them are all identical.
C13_ShortOrFlat ==
    hc_pc = "done" =>
        /\ Len(hc_returns) < hc_patience => hc_result = FALSE
        /\ (Len(hc_returns) >= hc_patience /\ Cardinality(LatestReturns) = 1)
              => hc_result = TRUE

\* A flat recent window that sits below an earlier best.
C13_Witness ==
    /\ hc_pc = "done"
    /\ Len(hc_returns) > hc_patience
    /\ hc_patience >= 2
    /\ Cardinality(LatestReturns) = 1
    /\ \E x \in EarlierReturns : \A y \in LatestReturns : x > y
    /\ hc_result = TRUE

\* C16: with at least patience returns whose last patience are not all
\* identical, has_converged returns True exactly when the overall maximum
\* occurs among the returns before the recent window, and False exactly when
\* it occurs only inside the last patience returns.
C16_BestBeforeWindow ==
    (/\ hc_pc = "done"
     /\ Len(hc_returns) >= hc_patience
     /\ Cardinality(LatestReturns) > 1) =>
        /\ hc_result = TRUE <=> SeqMax(hc_returns) \in EarlierReturns
        /\ hc_result = FALSE <=> (/\ SeqMax(hc_returns) \in LatestReturns
                                  /\ SeqMax(hc_returns) \notin EarlierReturns)

\* The best return is matched, not beaten, inside a varying recent window.
C16_Witness ==
    /\ hc_pc = "done"
    /\ Len(hc_returns) > hc_patience
    /\ Cardinality(LatestReturns) > 1
    /\ SeqMax(hc_returns) \in LatestReturns
    /\ SeqMax(hc_returns) \in EarlierReturns
    /\ hc_result = TRUE

(***************************************************************************)
(* Claims about the calls of the walk.                                     *)
(***************************************************************************)
\* C18: on a date that is not the last, when the old position is LONG and
\* the signal is LONG, or the old position is SHORT and the signal is SHORT,
\* the recorded order is 0 and the position after the date is the old
\* position.
C18_RepeatIsNoOp ==
    /\ position = SumTo(orders, Len(orders))
    /\ \A i \in 1..Len(orders) :
          (/\ i < NumDates
           /\ SumTo(orders, i - 1) \in {LONG, SHORT}
           /\ calls[i].action - 1 = SumTo(orders, i - 1)) =>
              /\ orders[i] = 0
              /\ SumTo(orders, i) = SumTo(orders, i - 1)

\* A short position that met a second sell signal on a date that is not the
\* last.
C18_Witness ==
    /\ Len(orders) >= 2
    /\ Len(orders) < NumDates
    /\ SumTo(orders, Len(orders) - 1) = SHORT
    /\ calls[Len(calls)].action - 1 = SHORT
    /\ orders[Len(orders)] = 0
    /\ position = SHORT

\* C15: in test_policy the agent is called with update=False and reward 0.0
\* on every date, replay is never called and the learner's value table is
\* never changed.
C15_PureInference ==
    method = "test_policy" =>
        /\ Len(calls) = day
        /\ \A i \in 1..Len(calls) :
              /\ calls[i].update = FALSE
              /\ calls[i].reward = <<0, 1>>
        /\ replays = 0
        /\ TableMutations(calls, replays) = 0

\* A finished test walk of several dates that traded.
C15_Witness ==
    /\ method = "test_policy"
    /\ pc = "done"
    /\ NumDates >= 2
    /\ Len(calls) = NumDates
    /\ \E i \in 1..Len(orders) : orders[i] # 0

\* What every training epoch has in common, whatever the done flags are.
EpochProtocol ==
    /\ Len(calls) = day
    /\ Len(orders) = day
    /\ position = SumTo(orders, Len(orders))
    /\ \A i \in 1..Len(calls) :
          IF i = 1
          THEN calls[i].update = FALSE /\ calls[i].reward = <<0, 1>>
          ELSE calls[i].update = TRUE
    /\ replays = IF pc = "done" THEN epoch ELSE epoch - 1

\* C17: in every training epoch the position starts from CASH, the call on
\* the first date is made with update=False and reward 0.0, the call on every
\* later date with update=True, the done flag is true on the last date and
\* on no other date, and replay is called once, after the last date.
C17_DoneOnLastDate ==
    (method = "add_evidence" /\ pc \in {"walk", "done"}) =>
        /\ EpochProtocol
        /\ \A i \in 1..Len(calls) : calls[i].done = (i = NumDates)

\* C17 (amended): as C17, but the done flag is passed on the dates after the
\* first only: it is true on the last date when that date is not also the
\* first, and on no other date; in a period of one date no call has it.
C17_DoneOnLastLaterDate ==
    (method = "add_evidence" /\ pc \in {"walk", "done"}) =>
        /\ EpochProtocol
        /\ \A i \in 1..Len(calls) : calls[i].done = (i > 1 /\ i = NumDates)

\* A second epoch walked to its last date, which is not its first.
C17_Witness ==
    /\ method = "add_evidence"
    /\ pc = "done"
    /\ epoch = 2
    /\ replays = 2
    /\ NumDates >= 2
    /\ Len(calls) = NumDates
    /\ calls[NumDates].done = TRUE

(***************************************************************************)
(* Claims about the epoch loop.                                            *)
(***************************************************************************)
\* The loop of add_evidence stops after epoch e, given the returns so far.
StopsAfter(e) ==
    \/ e > WarmUp /\ has_converged(SubSeq(cum_returns, 1, e), Patience)
    \/ e = epochs

\* C14: add_evidence runs the epochs 1, 2, ... in order and stops after the
\* first epoch e > 20 at which has_converged of the returns of epochs 1..e is
\* true, otherwise after epoch number epochs; it never runs more than epochs
\* epochs, never stops at an epoch <= 20 before the budget ends, and has
\* appended one cumulative return per epoch run.
C14_StopsAtFirstConvergence ==
    (method = "add_evidence" /\ pc \in {"walk", "done"}) =>
        /\ epoch \in 1..epochs
        /\ Len(cum_returns) = (IF pc = "done" THEN epoch ELSE epoch - 1)
        /\ replays = Len(cum_returns)
        /\ \A e \in 1..(epoch - 1) : ~StopsAfter(e)
        /\ pc = "done" => StopsAfter(epoch)
        /\ (pc = "done" /\ epoch < epochs) => epoch > WarmUp

\* Training that outlasted a convergence before the warm-up's end, and
\* stopped on one after it with budget to spare.
C14_Witness ==
    /\ pc = "done"
    /\ epoch > WarmUp
    /\ epoch < epochs
    /\ \E e \in Patience..WarmUp : has_converged(SubSeq(cum_returns, 1, e), Patience)

(***************************************************************************)
(* Claims about the states of a walk.                                      *)
(***************************************************************************)
\* C20: in add_evidence and test_policy, once get_thresholds has succeeded
\* on the feature table, every feature value handed to discretize is <= the
\* last threshold of its feature, the threshold lookup does not fail, and
\* the state lies in [0, 3 * num_steps^k).
C20_LoopStatesInRange ==
    disc_pc = "done" =>
        /\ \A i \in 1..NumFeatures : features[i] <= thresholds[i][th_num_steps]
        /\ ~DiscretizeFails(thresholds, features)
        /\ state.error = "none"
        /\ state.value \in 0..(3 * Pow(th_num_steps, NumFeatures) - 1)

\* A row whose feature sits on the last threshold, above the first one, was
\* discretized while LONG.
C20_Witness ==
    /\ disc_pc = "done"
    /\ th_num_steps >= 2
    /\ non_neg_position = 2
    /\ \E i \in 1..NumFeatures :
          /\ features[i] = thresholds[i][th_num_steps]
          /\ thresholds[i][1] < features[i]

(***************************************************************************)
(* Claims about the instances.                                             *)
(***************************************************************************)
\* C19: two StrategyLearner instances constructed without a learner argument
\* never share a learner, so the learner of one has received the training of
\* its own add_evidence calls only.
C19_LearnerPerInstance ==
    \A i, j \in 1..Len(instances) :
        (i # j /\ ~instances[i].explicit /\ ~instances[j].explicit) =>
            /\ instances[i].q_learner # instances[j].q_learner
            /\ learner_objs[instances[j].q_learner] = instances[j].trained

(***************************************************************************)
(* Claims about the order of the rows.                                     *)
(***************************************************************************)
\* The multiset of the (date, quantity) entries of the order rows: how many
\* rows carry each entry.
OrderBag(rows) ==
    [e \in [date : 1..MaxDate, shares : ShareValues] |->
        Cardinality({i \in 1..Len(rows) : rows[i] = e})]

RECURSIVE SumOver(_, _)
\* The sum of f over the finite set S.
SumOver(S, f) ==
    IF S = {} THEN 0
    ELSE LET x == CHOOSE y \in S : TRUE
         IN  f[x] + SumOver(S \ {x}, f)

\* The value of day t that a multiset of entries gives at the filled prices:
\* price * (shares of the entries up to t) + start_val + (their cash effects).
BagPortVal(bag, prices, start, t) ==
    LET upto == {e \in DOMAIN bag : bag[e] > 0 /\ e.date <= t}
    IN  prices[t] * SumOver(upto, [e \in upto |-> bag[e] * e.shares])
        + start
        + SumOver(upto, [e \in upto |->
                            bag[e] * CashEffect(e.shares, prices[e.date])])

====
